---- MODULE Spec2Model ----
(***************************************************************************)
(* A model of clean_fasta.py: the Entrez batch validator                   *)
(* (validate_ids_with_entrez), the FASTA rewriter (write_cleaned_fasta)    *)
(* and the pipeline that main() runs around them; of esummary_protein of   *)
(* entrez_metadata.py; and of the batch fetch loop of                      *)
(* download_human_refseq_proteins.py.                                      *)
(*                                                                         *)
(* Text is modelled as a sequence of one-character strings, so that the    *)
(* regular expressions of the source are computed, not assumed.            *)
(***************************************************************************)
EXTENDS Integers, Sequences, FiniteSets, TLC

VARIABLES
    ids,            \* validate_ids_with_entrez: the list of accessions to validate
    batch_size,     \* validate_ids_with_entrez: parameter batch_size
    retries,        \* validate_ids_with_entrez: parameter retries
    invalid_ids,    \* validate_ids_with_entrez: the set that is returned
    i,              \* chunker: offset of the next slice to yield
    original_batch, \* the slice the chunker yielded last
    batch,          \* the current (possibly reduced) batch
    attempt,        \* the batch's attempt counter
    k,              \* per-ID fallback: index in batch of the next accession
    pc,             \* position in validate_ids_with_entrez
    calls,          \* the remote calls issued for the current batch, in order
    waited,         \* time slept since the last remote call returned
    mpc,            \* position in main()
    input_exists,   \* os.path.exists(args.input)
    out_writable,   \* whether args.out can be created and opened for writing
    fasta,          \* the lines of the input FASTA
    all_accs,       \* main: all_accs
    bad_pattern_ids,\* main: bad_pattern_ids
    good_for_entrez,\* main: good_for_entrez
    bad_ids,        \* write_cleaned_fasta: parameter bad_ids
    rpc,            \* position in write_cleaned_fasta
    lineno,         \* write_cleaned_fasta: index of the next line of fin
    write_current,  \* write_cleaned_fasta: write_current
    fout,           \* write_cleaned_fasta: the lines written to fout
    covered,        \* the accessions that were in a remote call that succeeded
    service,        \* the remote service: free to answer anything, or a stand-in
    history,        \* the remote calls a stand-in service received, in order
    first,          \* what the first of two runs against a stand-in returned
    count,          \* download script: count, the number of records found
    start,          \* download script: start, the offset of the current batch
    success,        \* download script: success
    dl_retries,     \* download script: retries (of the current batch)
    dpc,            \* position in the download script
    fetches         \* download script: the efetch calls made, in order

valVars == <<ids, batch_size, retries, invalid_ids, i, original_batch, batch,
             attempt, k, pc, calls, waited, covered, history>>

svcVars == <<service, first>>

mainVars == <<mpc, input_exists, out_writable, fasta, all_accs, bad_pattern_ids,
              good_for_entrez>>

rwVars == <<bad_ids, rpc, lineno, write_current, fout>>

dlVars == <<count, start, success, dl_retries, dpc, fetches>>

otherVars == <<mainVars, rwVars, svcVars, dlVars>>

vars == <<valVars, mainVars, rwVars, svcVars, dlVars>>

----------------------------------------------------------------------------
(* Bounds of the model *)

\* the largest number of accessions handed to the validator
MaxIds == 3

\* the largest value of --retries explored
MaxRetries == 1

\* the largest batch_size explored
MaxBatchSize == 3

\* the largest number of lines of a FASTA handed to the rewriter alone
MaxLines == 4

\* the value of --delay, in the time unit of time.sleep
Delay == 1

----------------------------------------------------------------------------
(* Text helpers *)

Range(s) == {s[n] : n \in 1..Len(s)}

Min(a, b) == IF a < b THEN a ELSE b

\* The code points of the characters the model uses (Python compares strings
\* by code point).
CharCode(c) ==
    CASE c = "\n" -> 10
      [] c = " "  -> 32
      [] c = "."  -> 46
      [] c = "1"  -> 49
      [] c = "2"  -> 50
      [] c = "3"  -> 51
      [] c = "4"  -> 52
      [] c = ">"  -> 62
      [] c = "A"  -> 65
      [] c = "B"  -> 66
      [] c = "C"  -> 67
      [] c = "G"  -> 71
      [] c = "N"  -> 78
      [] c = "P"  -> 80
      [] c = "W"  -> 87
      [] c = "X"  -> 88
      [] c = "Y"  -> 89
      [] c = "_"  -> 95
      [] c = "a"  -> 97
      [] c = "b"  -> 98
      [] c = "|"  -> 124

\* s < t for Python strings
RECURSIVE StrLess(_, _)
StrLess(s, t) ==
    IF t = <<>> THEN FALSE
    ELSE IF s = <<>> THEN TRUE
    ELSE IF s[1] # t[1] THEN CharCode(s[1]) < CharCode(t[1])
    ELSE StrLess(Tail(s), Tail(t))

\* sorted(S) for a set of strings
RECURSIVE Sorted(_)
Sorted(S) ==
    IF S = {} THEN <<>>
    ELSE LET m == CHOOSE x \in S : \A y \in S \ {x} : StrLess(x, y)
         IN  <<m>> \o Sorted(S \ {m})

----------------------------------------------------------------------------
(* The accessions and the remote service *)

NP_1   == <<"N", "P", "_", "1">>
NP_2   == <<"N", "P", "_", "2">>
WP_4   == <<"W", "P", "_", "4">>
XP_3_1 == <<"X", "P", "_", "3", ".", "1">>

\* the accessions the validator is run on, and the tokens the service may
\* name in an 'Invalid uid X' message
IdUniverse == {NP_1, NP_2, WP_4, XP_3_1}

\* no token named: the failure message does not match 'Invalid uid\s+(\S+)'
NoUid == <<>>

\* one remote call, as the validator saw it
Call(kind, members, res, uid) ==
    [kind |-> kind, ids |-> members, res |-> res, uid |-> uid, gap |-> waited]

\* a service that may answer any call in any way
Free == [mock |-> FALSE, named |-> {}, opaque |-> {}]

\* a deterministic stand-in for the service: a call whose members include
\* some of `named` fails with 'Invalid uid X', X the first of them; any other
\* call with a member in `opaque` fails with another message; the rest succeed
Mock(named, opaque) == [mock |-> TRUE, named |-> named, opaque |-> opaque]

\* the answer of the stand-in svc to a call with these members
MockAnswer(svc, members) ==
    LET N == {n \in 1..Len(members) : members[n] \in svc.named}
    IN  IF N # {}
        THEN <<"invalid_uid", members[CHOOSE n \in N : \A m \in N : n <= m]>>
        ELSE IF Range(members) \cap svc.opaque # {}
        THEN <<"error", NoUid>>
        ELSE <<"ok", NoUid>>

\* the service can answer the call this way: a per-ID call only tells
\* success from failure
Answers(kind, members, res, uid) ==
    service.mock =>
        IF kind = "batch"
        THEN MockAnswer(service, members) = <<res, uid>>
        ELSE (res = "ok") <=> (MockAnswer(service, members)[1] = "ok")

\* Entrez.esummary + Entrez.read on these members, answered with res
Issue(kind, members, res, uid) ==
    /\ Answers(kind, members, res, uid)
    /\ calls' = Append(calls, Call(kind, members, res, uid))
    /\ history' = IF service.mock
                  THEN Append(history, Call(kind, members, res, uid))
                  ELSE history
    /\ covered' = IF res = "ok" THEN covered \cup Range(members) ELSE covered

\* no run has been recorded
NoRun == [ran |-> FALSE, rejected |-> {}, calls |-> <<>>]

\* the download script is not running
DownloadIdle ==
    /\ count = 0
    /\ start = 0
    /\ success = FALSE
    /\ dl_retries = 0
    /\ dpc = "idle"
    /\ fetches = <<>>

ServiceIdle ==
    /\ service = Free
    /\ first = NoRun

----------------------------------------------------------------------------
(* validate_ids_with_entrez *)

\* Chunk, with slices one element too long
Chunk_Overlapping(seq, n, o) == SubSeq(seq, o + 1, Min(o + n + 1, Len(seq)))

\* chunker(seq, n): the slice starting at offset o
Chunk(seq, n, o) == SubSeq(seq, o + 1, Min(o + n, Len(seq)))

\* chunker(seq, n): the slices at the offsets range(0, len(seq), n), in order
chunker(seq, n) ==
    [j \in 1..((Len(seq) + n - 1) \div n) |-> Chunk(seq, n, (j - 1) * n)]

ValidatorInit ==
    /\ invalid_ids = {}
    /\ i = 0
    /\ original_batch = <<>>
    /\ batch = <<>>
    /\ attempt = 0
    /\ k = 0
    /\ pc = "for"
    /\ calls = <<>>
    /\ waited = -1
    /\ covered = {}
    /\ history = <<>>

\* NextBatch, with `attempt = 0` done once and not for every batch
NextBatch_KeepsAttempt ==
    /\ pc = "for"
    /\ IF i < Len(ids)
       THEN /\ original_batch' = Chunk(ids, batch_size, i)
            /\ batch' = Chunk(ids, batch_size, i)
            /\ i' = i + batch_size
            /\ calls' = <<>>
            /\ pc' = IF Chunk(ids, batch_size, i) = <<>> THEN "for" ELSE "try"
       ELSE /\ pc' = "done"
            /\ UNCHANGED <<original_batch, batch, i, calls>>
    /\ UNCHANGED <<ids, batch_size, retries, invalid_ids, k, waited, covered,
                   history, attempt>>
    /\ UNCHANGED otherVars

\* for original_batch in chunker(ids, batch_size): the next slice, or the
\* return when there is none
NextBatch ==
    /\ pc = "for"
    /\ IF i < Len(ids)
       THEN /\ original_batch' = Chunk(ids, batch_size, i)
            /\ batch' = Chunk(ids, batch_size, i)
            /\ i' = i + batch_size
            /\ attempt' = 0
            /\ calls' = <<>>
            /\ pc' = IF Chunk(ids, batch_size, i) = <<>> THEN "for" ELSE "try"
       ELSE /\ pc' = "done"
            /\ UNCHANGED <<original_batch, batch, i, attempt, calls>>
    /\ UNCHANGED <<ids, batch_size, retries, invalid_ids, k, waited, covered,
                   history>>
    /\ UNCHANGED otherVars

\* the whole-batch ESummary call succeeds
BatchCallOK ==
    /\ pc = "try"
    /\ Issue("batch", batch, "ok", NoUid)
    /\ waited' = Delay
    /\ pc' = "for"
    /\ UNCHANGED <<ids, batch_size, retries, invalid_ids, i, original_batch,
                   batch, attempt, k>>
    /\ UNCHANGED otherVars

\* CountedFailure, discarding the batch when the retries are exhausted
CountedFailure_DiscardsBatch ==
    /\ attempt' = attempt + 1
    /\ IF attempt + 1 > retries
       THEN /\ pc' = "for"
            /\ invalid_ids' = invalid_ids \cup Range(batch)
            /\ waited' = 0
       ELSE /\ pc' = "try"
            /\ invalid_ids' = invalid_ids
            /\ waited' = 3 * (attempt + 1)
    /\ UNCHANGED <<batch, k>>

\* CountedFailure, leaving the batch as it is when the retries are exhausted:
\* neither a fallback nor a rejection
CountedFailure_SkipsBatch ==
    /\ attempt' = attempt + 1
    /\ IF attempt + 1 > retries
       THEN /\ pc' = "for"
            /\ waited' = 0
       ELSE /\ pc' = "try"
            /\ waited' = 3 * (attempt + 1)
    /\ UNCHANGED <<invalid_ids, batch, k>>

\* CountedFailure, with the same back-off before every retry
CountedFailure_FixedBackoff ==
    /\ attempt' = attempt + 1
    /\ IF attempt + 1 > retries
       THEN /\ pc' = "perid"
            /\ k' = 1
            /\ waited' = 0
       ELSE /\ pc' = "try"
            /\ k' = k
            /\ waited' = 3
    /\ UNCHANGED <<invalid_ids, batch>>

\* CountedFailure, re-raising when the retries are exhausted (as
\* esummary_protein of entrez_metadata.py does)
CountedFailure_Raises ==
    /\ attempt' = attempt + 1
    /\ IF attempt + 1 > retries
       THEN /\ pc' = "raised"
            /\ waited' = 0
       ELSE /\ pc' = "try"
            /\ waited' = 3 * (attempt + 1)
    /\ UNCHANGED <<invalid_ids, batch, k>>

\* CountedFailure, with `attempt >= retries` for `attempt > retries`
CountedFailure_OffByOne ==
    /\ attempt' = attempt + 1
    /\ IF attempt + 1 >= retries
       THEN /\ pc' = "perid"
            /\ k' = 1
            /\ waited' = 0
       ELSE /\ pc' = "try"
            /\ k' = k
            /\ waited' = 3 * (attempt + 1)
    /\ UNCHANGED <<invalid_ids, batch>>

\* attempt += 1, then per-ID fallback or a back-off and another try
CountedFailure ==
    /\ attempt' = attempt + 1
    /\ IF attempt + 1 > retries
       THEN /\ pc' = "perid"
            /\ k' = 1
            /\ waited' = 0
       ELSE /\ pc' = "try"
            /\ k' = k
            /\ waited' = 3 * (attempt + 1)
    /\ UNCHANGED <<invalid_ids, batch>>

\* DropInvalidUid, spending the retry budget on the dropped uid
DropInvalidUid_Counted(bad_uid) ==
    /\ invalid_ids' = invalid_ids \cup {bad_uid}
    /\ batch' = SelectSeq(batch, LAMBDA x : x # bad_uid)
    /\ attempt' = attempt + 1
    /\ pc' = IF SelectSeq(batch, LAMBDA x : x # bad_uid) = <<>> THEN "for"
             ELSE IF attempt + 1 > retries THEN "perid"
             ELSE "try"
    /\ k' = IF attempt + 1 > retries THEN 1 ELSE k
    /\ waited' = 0

\* DropInvalidUid, starting the attempts of the reduced batch afresh
DropInvalidUid_ResetsAttempt(bad_uid) ==
    /\ invalid_ids' = invalid_ids \cup {bad_uid}
    /\ batch' = SelectSeq(batch, LAMBDA x : x # bad_uid)
    /\ attempt' = 0
    /\ pc' = IF SelectSeq(batch, LAMBDA x : x # bad_uid) = <<>> THEN "for" ELSE "try"
    /\ waited' = 0
    /\ UNCHANGED k

\* DropInvalidUid, without the test `if not batch: break`
DropInvalidUid_RetriesEmpty(bad_uid) ==
    /\ invalid_ids' = invalid_ids \cup {bad_uid}
    /\ batch' = SelectSeq(batch, LAMBDA x : x # bad_uid)
    /\ pc' = "try"
    /\ waited' = 0
    /\ UNCHANGED <<attempt, k>>

\* 'Invalid uid X' with X in the batch: X is invalid, dropped, and the batch
\* is tried again without counting a retry
DropInvalidUid(bad_uid) ==
    /\ invalid_ids' = invalid_ids \cup {bad_uid}
    /\ batch' = SelectSeq(batch, LAMBDA x : x # bad_uid)
    /\ pc' = IF SelectSeq(batch, LAMBDA x : x # bad_uid) = <<>> THEN "for" ELSE "try"
    /\ waited' = 0
    /\ UNCHANGED <<attempt, k>>

\* BatchCallInvalidUid, without the test `bad_uid in batch`
BatchCallInvalidUid_NoMembershipTest(bad_uid) ==
    /\ pc = "try"
    /\ Issue("batch", batch, "invalid_uid", bad_uid)
    /\ DropInvalidUid(bad_uid)
    /\ UNCHANGED <<ids, batch_size, retries, i, original_batch>>
    /\ UNCHANGED otherVars

\* the whole-batch call raises with a message that names a uid
BatchCallInvalidUid(bad_uid) ==
    /\ pc = "try"
    /\ Issue("batch", batch, "invalid_uid", bad_uid)
    /\ IF bad_uid \in Range(batch)
       THEN DropInvalidUid(bad_uid)
       ELSE CountedFailure
    /\ UNCHANGED <<ids, batch_size, retries, i, original_batch>>
    /\ UNCHANGED otherVars

\* the whole-batch call raises with any other message (Otherdb, a timeout)
BatchCallError ==
    /\ pc = "try"
    /\ Issue("batch", batch, "error", NoUid)
    /\ CountedFailure
    /\ UNCHANGED <<ids, batch_size, retries, i, original_batch>>
    /\ UNCHANGED otherVars

\* PerIdAdvance, leaving the loop one accession early
PerIdAdvance_StopsEarly ==
    /\ k' = k + 1
    /\ pc' = IF k + 1 >= Len(batch) THEN "for" ELSE "perid"

\* the end of one iteration of `for acc in batch`
PerIdAdvance ==
    /\ k' = k + 1
    /\ pc' = IF k = Len(batch) THEN "for" ELSE "perid"

\* per-ID fallback: the ESummary call for batch[k] succeeds
PerIdOK ==
    /\ pc = "perid"
    /\ Issue("single", <<batch[k]>>, "ok", NoUid)
    /\ waited' = Delay
    /\ PerIdAdvance
    /\ UNCHANGED <<ids, batch_size, retries, invalid_ids, i, original_batch,
                   batch, attempt>>
    /\ UNCHANGED otherVars

\* per-ID fallback: the ESummary call for batch[k] raises
PerIdFail ==
    /\ pc = "perid"
    /\ Issue("single", <<batch[k]>>, "error", NoUid)
    /\ invalid_ids' = invalid_ids \cup {batch[k]}
    /\ waited' = 0
    /\ PerIdAdvance
    /\ UNCHANGED <<ids, batch_size, retries, i, original_batch, batch, attempt>>
    /\ UNCHANGED otherVars

----------------------------------------------------------------------------
(* Text: character classes, str.strip, str.split *)

IsDigit(c) == c \in {"1", "2", "3", "4"}

IsUpper(c) == c \in {"A", "B", "C", "G", "N", "P", "W", "X", "Y"}

IsLower(c) == c \in {"a", "b"}

IsAlnum(c) == IsDigit(c) \/ IsUpper(c) \/ IsLower(c)

IsSpace(c) == c \in {" ", "\n"}

\* s.lstrip()
RECURSIVE LStrip(_)
LStrip(s) == IF s # <<>> /\ IsSpace(s[1]) THEN LStrip(Tail(s)) ELSE s

\* s.rstrip()
RECURSIVE RStrip(_)
RStrip(s) ==
    IF s # <<>> /\ IsSpace(s[Len(s)]) THEN RStrip(SubSeq(s, 1, Len(s) - 1)) ELSE s

\* s.strip()
Strip(s) == RStrip(LStrip(s))

\* s.rstrip("\n")
RECURSIVE RStripNewline(_)
RStripNewline(s) ==
    IF s # <<>> /\ s[Len(s)] = "\n"
    THEN RStripNewline(SubSeq(s, 1, Len(s) - 1))
    ELSE s

\* the length of the longest prefix of s made of characters that are not spaces
RECURSIVE TokenLen(_)
TokenLen(s) == IF s = <<>> \/ IsSpace(s[1]) THEN 0 ELSE 1 + TokenLen(Tail(s))

\* the number of digits s has from position p on
RECURSIVE DigitRun(_, _)
DigitRun(s, p) ==
    IF p <= Len(s) /\ IsDigit(s[p]) THEN 1 + DigitRun(s, p + 1) ELSE 0

\* line.startswith(">")
IsHeader(line) == line # <<>> /\ line[1] = ">"

----------------------------------------------------------------------------
(* is_valid_protein_id_local and extract_accession_from_header *)

\* re.match(r"^[0-9][A-Za-z0-9]{3}_[A-Za-z0-9]$", s)
IsPdbChain(s) ==
    /\ Len(s) = 6
    /\ IsDigit(s[1])
    /\ \A n \in 2..4 : IsAlnum(s[n])
    /\ s[5] = "_"
    /\ IsAlnum(s[6])

is_valid_protein_id_local(s) ==
    /\ Strip(s) # <<>>
    /\ ~IsPdbChain(Strip(s))

\* the number of letters j in 1..3 with which [A-Z]{1,3}_\d matches s at p,
\* or 0 when there is none
AccLetters(s, p) ==
    LET J == {j \in 1..3 :
                /\ p + j + 1 <= Len(s)
                /\ \A n \in p..(p + j - 1) : IsUpper(s[n])
                /\ s[p + j] = "_"
                /\ IsDigit(s[p + j + 1])}
    IN  IF J = {} THEN 0 ELSE CHOOSE j \in J : \A h \in J : h <= j

\* the last position of the match of [A-Z]{1,3}_\d+(?:\.\d+)? that starts at p
AccEnd(s, p) ==
    LET d == p + AccLetters(s, p) + 1
        e == d + DigitRun(s, d) - 1
    IN  IF e + 2 <= Len(s) /\ s[e + 1] = "." /\ IsDigit(s[e + 2])
        THEN e + 1 + DigitRun(s, e + 2)
        ELSE e

\* pat.search(line): the positions at which the pattern matches
AccStarts(s) == {p \in 1..Len(s) : AccLetters(s, p) > 0}

\* what line[1:].strip().split()[0] raises when there is no token
IndexError == <<"IndexError">>

extract_accession_from_header(line0) ==
    LET line == RStripNewline(line0)
    IN  IF ~IsHeader(line) THEN <<>>
        ELSE IF AccStarts(line) # {}
        THEN LET p == CHOOSE q \in AccStarts(line) : \A r \in AccStarts(line) : q <= r
             IN  SubSeq(line, p, AccEnd(line, p))
        ELSE LET rest == Strip(Tail(line))
             IN  IF rest = <<>> THEN IndexError
                 ELSE SubSeq(rest, 1, TokenLen(rest))

----------------------------------------------------------------------------
(* The FASTA lines the model draws its files from *)

PDB_1ABC_A == <<"1", "A", "B", "C", "_", "A">>

\* ">NP_1 a"
HdrNP1 == <<">", "N", "P", "_", "1", " ", "a", "\n">>
\* ">a|NP_2": the accession is not the first token
HdrNP2 == <<">", "a", "|", "N", "P", "_", "2", "\n">>
\* ">WP_4"
HdrWP4 == <<">", "W", "P", "_", "4", "\n">>
\* ">1ABC_A": a PDB chain
HdrPdb == <<">", "1", "A", "B", "C", "_", "A", "\n">>
\* ">": a header without any token
HdrEmpty == <<">", "\n">>

SeqAC == <<"A", "C", "\n">>
SeqG  == <<"G", "\n">>

\* the lines of the files handed to the rewriter alone
LineCatalogue == {HdrNP1, HdrNP2, HdrEmpty, SeqAC, SeqG}

\* the sets of bad ids handed to the rewriter alone
BadIdUniverse == {NP_1, NP_2}

\* the input files of the runs of main()
MainDatasets ==
    { <<HdrNP1, SeqAC, SeqG, HdrNP2, SeqG, HdrPdb, SeqAC>>,
      <<HdrWP4, HdrNP2, SeqAC, HdrNP1>>,
      <<HdrNP1, SeqG, HdrEmpty>>,
      <<>> }

\* all sequences over S of length at most n
BoundedSeq(S, n) == UNION {[1..m -> S] : m \in 0..n}

----------------------------------------------------------------------------
(* write_cleaned_fasta *)

RewriterIdle ==
    /\ bad_ids = {}
    /\ rpc = "idle"
    /\ lineno = 0
    /\ write_current = TRUE
    /\ fout = <<>>

\* os.makedirs(out dir) in main, then `with in_open(...) as fin,
\* out_open(out_path, "wt") as fout`
RewriteOpen ==
    /\ rpc = "open"
    /\ IF out_writable
       THEN /\ rpc' = "loop"
            /\ lineno' = 1
            /\ write_current' = TRUE
            /\ fout' = <<>>
            /\ mpc' = mpc
       ELSE /\ rpc' = "raised"
            /\ mpc' = IF mpc = "write" THEN "raised" ELSE mpc
            /\ UNCHANGED <<lineno, write_current, fout>>
    /\ UNCHANGED <<bad_ids, input_exists, out_writable, fasta, all_accs,
                   bad_pattern_ids, good_for_entrez>>
    /\ UNCHANGED <<valVars, svcVars, dlVars>>

\* RewriteHeader, never setting write_current back to True
RewriteHeader_StaleFlag(line) ==
    LET acc == extract_accession_from_header(line)
    IN  IF acc = IndexError
        THEN /\ rpc' = "raised"
             /\ mpc' = IF mpc = "write" THEN "raised" ELSE mpc
             /\ UNCHANGED <<lineno, write_current, fout>>
        ELSE /\ write_current' = IF acc \in bad_ids THEN FALSE ELSE write_current
             /\ fout' = IF acc \in bad_ids THEN fout ELSE Append(fout, line)
             /\ lineno' = lineno + 1
             /\ UNCHANGED <<rpc, mpc>>

\* the body of `for line in fin` for a header line
RewriteHeader(line) ==
    LET acc == extract_accession_from_header(line)
    IN  IF acc = IndexError
        THEN /\ rpc' = "raised"
             /\ mpc' = IF mpc = "write" THEN "raised" ELSE mpc
             /\ UNCHANGED <<lineno, write_current, fout>>
        ELSE /\ write_current' = (acc \notin bad_ids)
             /\ fout' = IF acc \in bad_ids THEN fout ELSE Append(fout, line)
             /\ lineno' = lineno + 1
             /\ UNCHANGED <<rpc, mpc>>

\* the body of `for line in fin` for any other line
RewriteBody(line) ==
    /\ fout' = IF write_current THEN Append(fout, line) ELSE fout
    /\ lineno' = lineno + 1
    /\ UNCHANGED <<write_current, rpc, mpc>>

\* one iteration of `for line in fin`
RewriteLine ==
    /\ rpc = "loop"
    /\ lineno <= Len(fasta)
    /\ IF IsHeader(fasta[lineno])
       THEN RewriteHeader(fasta[lineno])
       ELSE RewriteBody(fasta[lineno])
    /\ UNCHANGED <<bad_ids, input_exists, out_writable, fasta, all_accs,
                   bad_pattern_ids, good_for_entrez>>
    /\ UNCHANGED <<valVars, svcVars, dlVars>>

\* the end of the input: both files are closed and the function returns
RewriteClose ==
    /\ rpc = "loop"
    /\ lineno > Len(fasta)
    /\ rpc' = "closed"
    /\ mpc' = IF mpc = "write" THEN "end" ELSE mpc
    /\ UNCHANGED <<bad_ids, lineno, write_current, fout, input_exists,
                   out_writable, fasta, all_accs, bad_pattern_ids, good_for_entrez>>
    /\ UNCHANGED <<valVars, svcVars, dlVars>>

----------------------------------------------------------------------------
(* main *)

\* the default of the parameter batch_size, which main does not pass
DefaultBatchSize == 400

\* the headers of a file
Headers(f) == {f[n] : n \in {m \in 1..Len(f) : IsHeader(f[m])}}

\* collect_accessions_from_fasta(path)
collect_accessions_from_fasta(f) ==
    Sorted({extract_accession_from_header(h) : h \in Headers(f)} \ {<<>>})

\* if not os.path.exists(args.input): sys.exit(1)
MainCheckInput ==
    /\ mpc = "start"
    /\ mpc' = IF input_exists THEN "collect" ELSE "exit1"
    /\ UNCHANGED <<input_exists, out_writable, fasta, all_accs, bad_pattern_ids,
                   good_for_entrez>>
    /\ UNCHANGED <<valVars, rwVars, svcVars, dlVars>>

\* 1) all_accs = collect_accessions_from_fasta(args.input)
MainCollect ==
    /\ mpc = "collect"
    /\ IF \E h \in Headers(fasta) : extract_accession_from_header(h) = IndexError
       THEN /\ mpc' = "raised"
            /\ UNCHANGED all_accs
       ELSE /\ mpc' = "filter"
            /\ all_accs' = collect_accessions_from_fasta(fasta)
    /\ UNCHANGED <<input_exists, out_writable, fasta, bad_pattern_ids, good_for_entrez>>
    /\ UNCHANGED <<valVars, rwVars, svcVars, dlVars>>

\* MainFilter, handing every accession on to Entrez
MainFilter_PassesAll ==
    /\ mpc = "filter"
    /\ bad_pattern_ids' = {a \in Range(all_accs) : ~is_valid_protein_id_local(a)}
    /\ good_for_entrez' = all_accs
    /\ mpc' = "call"
    /\ UNCHANGED <<input_exists, out_writable, fasta, all_accs>>
    /\ UNCHANGED <<valVars, rwVars, svcVars, dlVars>>

\* 2) bad_pattern_ids and good_for_entrez
MainFilter ==
    /\ mpc = "filter"
    /\ bad_pattern_ids' = {a \in Range(all_accs) : ~is_valid_protein_id_local(a)}
    /\ good_for_entrez' =
          SelectSeq(all_accs, LAMBDA a : is_valid_protein_id_local(a))
    /\ mpc' = "call"
    /\ UNCHANGED <<input_exists, out_writable, fasta, all_accs>>
    /\ UNCHANGED <<valVars, rwVars, svcVars, dlVars>>

\* 3) validate_ids_with_entrez(good_for_entrez, ..., retries=args.retries)
MainValidate ==
    /\ mpc = "call"
    /\ ids' = good_for_entrez
    /\ pc' = "for"
    /\ mpc' = "validating"
    /\ UNCHANGED <<batch_size, retries, invalid_ids, i, original_batch, batch,
                   attempt, k, calls, waited, covered, history>>
    /\ UNCHANGED <<input_exists, out_writable, fasta, all_accs, bad_pattern_ids,
                   good_for_entrez>>
    /\ UNCHANGED <<rwVars, svcVars, dlVars>>

\* 4) bad_ids = bad_pattern_ids | bad_entrez_ids, 5) write_cleaned_fasta
MainCombine ==
    /\ mpc = "validating"
    /\ pc = "done"
    /\ bad_ids' = bad_pattern_ids \cup invalid_ids
    /\ rpc' = "open"
    /\ mpc' = "write"
    /\ UNCHANGED <<lineno, write_current, fout>>
    /\ UNCHANGED <<input_exists, out_writable, fasta, all_accs, bad_pattern_ids,
                   good_for_entrez>>
    /\ UNCHANGED <<valVars, svcVars, dlVars>>

MainIdle ==
    /\ mpc = "none"
    /\ input_exists = TRUE
    /\ out_writable = TRUE
    /\ fasta = <<>>
    /\ all_accs = <<>>
    /\ bad_pattern_ids = {}
    /\ good_for_entrez = <<>>

----------------------------------------------------------------------------
(* The specifications *)

\* the arguments of a run of the validator: a sorted, deduplicated list
Init ==
    /\ ids \in {Sorted(S) : S \in {T \in SUBSET IdUniverse : Cardinality(T) <= MaxIds}}
    /\ batch_size \in 1..MaxBatchSize
    /\ retries \in 0..MaxRetries
    /\ ValidatorInit
    /\ MainIdle
    /\ RewriterIdle
    /\ ServiceIdle
    /\ DownloadIdle

Next ==
    \/ NextBatch
    \/ BatchCallOK
    \/ \E bad_uid \in IdUniverse : BatchCallInvalidUid(bad_uid)
    \/ BatchCallError
    \/ PerIdOK
    \/ PerIdFail

Spec == Init /\ [][Next]_vars

\* a run of write_cleaned_fasta alone, on any file and any set of bad ids
InitRewrite ==
    /\ fasta \in BoundedSeq(LineCatalogue, MaxLines)
    /\ bad_ids \in SUBSET BadIdUniverse
    /\ rpc = "open"
    /\ lineno = 0
    /\ write_current = TRUE
    /\ fout = <<>>
    /\ mpc = "none"
    /\ input_exists = TRUE
    /\ out_writable = TRUE
    /\ all_accs = <<>>
    /\ bad_pattern_ids = {}
    /\ good_for_entrez = <<>>
    /\ ids = <<>>
    /\ batch_size = DefaultBatchSize
    /\ retries = 0
    /\ ValidatorInit
    /\ ServiceIdle
    /\ DownloadIdle

NextRewrite ==
    \/ RewriteOpen
    \/ RewriteLine
    \/ RewriteClose

SpecRewrite == InitRewrite /\ [][NextRewrite]_vars

\* a run of main()
InitMain ==
    /\ mpc = "start"
    /\ input_exists \in BOOLEAN
    /\ out_writable \in BOOLEAN
    /\ fasta \in MainDatasets
    /\ all_accs = <<>>
    /\ bad_pattern_ids = {}
    /\ good_for_entrez = <<>>
    /\ ids = <<>>
    /\ batch_size = DefaultBatchSize
    /\ retries \in 0..MaxRetries
    /\ invalid_ids = {}
    /\ i = 0
    /\ original_batch = <<>>
    /\ batch = <<>>
    /\ attempt = 0
    /\ k = 0
    /\ pc = "idle"
    /\ calls = <<>>
    /\ waited = -1
    /\ covered = {}
    /\ history = <<>>
    /\ RewriterIdle
    /\ ServiceIdle
    /\ DownloadIdle

NextMain ==
    \/ MainCheckInput
    \/ MainCollect
    \/ MainFilter
    \/ MainValidate
    \/ NextBatch
    \/ BatchCallOK
    \/ \E bad_uid \in IdUniverse : BatchCallInvalidUid(bad_uid)
    \/ BatchCallError
    \/ PerIdOK
    \/ PerIdFail
    \/ MainCombine
    \/ RewriteOpen
    \/ RewriteLine
    \/ RewriteClose

SpecMain == InitMain /\ [][NextMain]_vars

\* the validator is called again with the same arguments: its result is
\* put aside and invalid_ids and the chunker start afresh
SecondRun ==
    /\ pc = "done"
    /\ service.mock
    /\ ~first.ran
    /\ first' = [ran |-> TRUE, rejected |-> invalid_ids, calls |-> history]
    /\ invalid_ids' = {}
    /\ i' = 0
    /\ covered' = {}
    /\ history' = <<>>
    /\ pc' = "for"
    /\ UNCHANGED <<ids, batch_size, retries, original_batch, batch, attempt, k,
                   calls, waited, service>>
    /\ UNCHANGED <<mainVars, rwVars, dlVars>>

\* two runs of the validator on the same four accessions, against a
\* deterministic stand-in for the service
InitMock ==
    /\ ids = Sorted(IdUniverse)
    /\ batch_size \in 1..MaxBatchSize
    /\ retries \in 0..MaxRetries
    /\ ValidatorInit
    /\ MainIdle
    /\ RewriterIdle
    /\ service \in {Mock(N, O) : N \in SUBSET IdUniverse, O \in SUBSET IdUniverse}
    /\ first = NoRun
    /\ DownloadIdle

NextMock ==
    \/ NextBatch
    \/ BatchCallOK
    \/ \E bad_uid \in IdUniverse : BatchCallInvalidUid(bad_uid)
    \/ BatchCallError
    \/ PerIdOK
    \/ PerIdFail
    \/ SecondRun

SpecMock == InitMock /\ [][NextMock]_vars

----------------------------------------------------------------------------
(* esummary_protein of entrez_metadata.py, on the variables of the validator: *)
(* it keeps no set of invalid ids, and `covered` holds the ids whose records  *)
(* were put in `out`                                                          *)

\* for batch in chunker(ids, 400)
SummaryBatchSize == 400

\* for batch in chunker(ids, 400): the next slice, or the return
SumNextBatch ==
    /\ pc = "for"
    /\ IF i < Len(ids)
       THEN /\ original_batch' = Chunk(ids, SummaryBatchSize, i)
            /\ batch' = Chunk(ids, SummaryBatchSize, i)
            /\ i' = i + SummaryBatchSize
            /\ attempt' = 0
            /\ calls' = <<>>
            /\ pc' = IF Chunk(ids, SummaryBatchSize, i) = <<>> THEN "for" ELSE "try"
       ELSE /\ pc' = "done"
            /\ UNCHANGED <<original_batch, batch, i, attempt, calls>>
    /\ UNCHANGED <<ids, batch_size, retries, invalid_ids, k, waited, covered,
                   history>>
    /\ UNCHANGED otherVars

\* the ESummary call succeeds: out.extend(recs)
SumCallOK ==
    /\ pc = "try"
    /\ Issue("batch", batch, "ok", NoUid)
    /\ waited' = Delay
    /\ pc' = "for"
    /\ UNCHANGED <<ids, batch_size, retries, invalid_ids, i, original_batch,
                   batch, attempt, k>>
    /\ UNCHANGED otherVars

\* `if attempt > retries: raise`, else a back-off and another try; attempt
\* has been incremented at the top of the handler
SumRaiseOrRetry ==
    /\ attempt' = attempt + 1
    /\ batch' = batch
    /\ IF attempt + 1 > retries
       THEN /\ pc' = "raised"
            /\ waited' = 0
       ELSE /\ pc' = "try"
            /\ waited' = 3 * (attempt + 1)

\* 'Invalid uid X' with X in the batch: X is dropped and the batch tried
\* again; attempt has been incremented at the top of the handler
SumDropInvalidUid(bad_uid) ==
    /\ attempt' = attempt + 1
    /\ batch' = SelectSeq(batch, LAMBDA x : x # bad_uid)
    /\ pc' = IF SelectSeq(batch, LAMBDA x : x # bad_uid) = <<>> THEN "for" ELSE "try"
    /\ waited' = 0

\* the ESummary call raises with a message that names a uid
SumCallInvalidUid(bad_uid) ==
    /\ pc = "try"
    /\ Issue("batch", batch, "invalid_uid", bad_uid)
    /\ IF bad_uid \in Range(batch)
       THEN SumDropInvalidUid(bad_uid)
       ELSE SumRaiseOrRetry
    /\ UNCHANGED <<ids, batch_size, retries, invalid_ids, i, original_batch, k>>
    /\ UNCHANGED otherVars

\* the ESummary call raises with any other message
SumCallError ==
    /\ pc = "try"
    /\ Issue("batch", batch, "error", NoUid)
    /\ SumRaiseOrRetry
    /\ UNCHANGED <<ids, batch_size, retries, invalid_ids, i, original_batch, k>>
    /\ UNCHANGED otherVars

\* the arguments of a run of esummary_protein
InitSummary ==
    /\ ids \in {Sorted(S) : S \in {T \in SUBSET IdUniverse : Cardinality(T) <= MaxIds}}
    /\ batch_size = SummaryBatchSize
    /\ retries \in 0..MaxRetries
    /\ ValidatorInit
    /\ MainIdle
    /\ RewriterIdle
    /\ ServiceIdle
    /\ DownloadIdle

NextSummary ==
    \/ SumNextBatch
    \/ SumCallOK
    \/ \E bad_uid \in IdUniverse : SumCallInvalidUid(bad_uid)
    \/ SumCallError

SpecSummary == InitSummary /\ [][NextSummary]_vars

\* a run of the validator with room for two budgeted retries of a batch
InitBackoff ==
    /\ ids \in {Sorted(S) : S \in {T \in SUBSET IdUniverse : Cardinality(T) < MaxIds}}
    /\ batch_size \in 1..MaxBatchSize
    /\ retries \in 0..(MaxRetries + 1)
    /\ ValidatorInit
    /\ MainIdle
    /\ RewriterIdle
    /\ ServiceIdle
    /\ DownloadIdle

SpecBackoff == InitBackoff /\ [][Next]_vars

----------------------------------------------------------------------------
(* download_human_refseq_proteins.py: the batch fetch loop *)

\* BATCH_SIZE = 500
BATCH_SIZE == 500

\* RETRY_LIMIT = 3
RETRY_LIMIT == 3

\* the largest number of batches of a download
MaxBatches == 3

\* for start in range(0, count, BATCH_SIZE): the next batch, with
\* success = False and retries = 0, or the end of the script
DlFor ==
    /\ dpc = "for"
    /\ IF start < count
       THEN /\ success' = FALSE
            /\ dl_retries' = 0
            /\ dpc' = "while"
       ELSE /\ dpc' = "complete"
            /\ UNCHANGED <<success, dl_retries>>
    /\ UNCHANGED <<count, start, fetches>>
    /\ UNCHANGED <<valVars, mainVars, rwVars, svcVars>>

\* while not success and retries < RETRY_LIMIT
WhileTest == ~success /\ dl_retries < RETRY_LIMIT

\* the body of the while loop: efetch and the write of the file succeed
DlFetchOK ==
    /\ dpc = "while"
    /\ WhileTest
    /\ fetches' = Append(fetches, [start |-> start, ok |-> TRUE])
    /\ success' = TRUE
    /\ UNCHANGED <<count, start, dl_retries, dpc>>
    /\ UNCHANGED <<valVars, mainVars, rwVars, svcVars>>

\* the body of the while loop: an exception; retries += 1, and a sleep
DlFetchFail ==
    /\ dpc = "while"
    /\ WhileTest
    /\ fetches' = Append(fetches, [start |-> start, ok |-> FALSE])
    /\ dl_retries' = dl_retries + 1
    /\ UNCHANGED <<count, start, success, dpc>>
    /\ UNCHANGED <<valVars, mainVars, rwVars, svcVars>>

\* the while loop is left: `if not success: sys.exit(1)`, else a sleep and
\* the next start of the range
DlEndWhile ==
    /\ dpc = "while"
    /\ ~WhileTest
    /\ IF ~success
       THEN /\ dpc' = "exit1"
            /\ start' = start
       ELSE /\ dpc' = "for"
            /\ start' = start + BATCH_SIZE
    /\ UNCHANGED <<count, success, dl_retries, fetches>>
    /\ UNCHANGED <<valVars, mainVars, rwVars, svcVars>>

\* the script after the search returned count
InitDownload ==
    /\ count \in {0} \cup {n * BATCH_SIZE + r : n \in 0..(MaxBatches - 1),
                                                r \in {1, BATCH_SIZE}}
    /\ start = 0
    /\ success = FALSE
    /\ dl_retries = 0
    /\ dpc = "for"
    /\ fetches = <<>>
    /\ ids = <<>>
    /\ batch_size = 1
    /\ retries = 0
    /\ ValidatorInit
    /\ MainIdle
    /\ RewriterIdle
    /\ ServiceIdle

NextDownload ==
    \/ DlFor
    \/ DlFetchOK
    \/ DlFetchFail
    \/ DlEndWhile

SpecDownload == InitDownload /\ [][NextDownload]_vars

\* the validator runs in one thread and every remote call returns (the socket
\* timeout of 60 s turns a silent service into a failure): it keeps stepping
FairSpec == Spec /\ WF_vars(Next)

----------------------------------------------------------------------------
(* The remote calls of the current batch, read from the log *)

BatchCalls == SelectSeq(calls, LAMBDA c : c.kind = "batch")

SingleCalls == SelectSeq(calls, LAMBDA c : c.kind = "single")

\* a whole-batch failure that named a member of the batch it was sent
IsReduction(c) ==
    c.kind = "batch" /\ c.res = "invalid_uid" /\ c.uid \in Range(c.ids)

\* a whole-batch failure that named no member of the batch it was sent
IsAmbiguous(c) ==
    /\ c.kind = "batch"
    /\ \/ c.res = "error"
       \/ c.res = "invalid_uid" /\ c.uid \notin Range(c.ids)

NumReductions == Len(SelectSeq(calls, IsReduction))

NumAmbiguous == Len(SelectSeq(calls, IsAmbiguous))

\* the per-ID fallback of the current batch has started
FallbackEntered == pc = "perid" \/ SingleCalls # <<>>

\* the current batch is finished
BatchTerminal == pc \in {"for", "done"} /\ calls # <<>>

\* everything that is not in the returned set
Accepted == Range(ids) \ invalid_ids

----------------------------------------------------------------------------
(* C1 - C10 *)

\* C1: when validate_ids_with_entrez returns, the returned set holds only
\* input identifiers, and Accepted (the input minus the returned set) and the
\* returned set partition the input: every identifier has exactly one outcome.
C1_PartitionComplete ==
    pc = "done" =>
        /\ invalid_ids \subseteq Range(ids)
        /\ Accepted \cup invalid_ids = Range(ids)
        /\ Accepted \cap invalid_ids = {}

\* a run that returned after rejecting some, accepting some, and being told
\* of an invalid uid that is not in the input
C1_Witness ==
    /\ pc = "done"
    /\ invalid_ids # {}
    /\ Accepted # {}
    /\ \E n \in 1..Len(calls) :
          calls[n].res = "invalid_uid" /\ calls[n].uid \notin Range(ids)

\* C2: an identifier enters the returned set only in the step of a
\* whole-batch failure that named it while it was in the current batch, or in
\* the step of its own failed individual call; a whole-batch failure rejects
\* nothing that it did not name.
C2_RejectedOnlyNamedOrAlone ==
    [][\A x \in invalid_ids' \ invalid_ids :
          /\ Len(calls') = Len(calls) + 1
          /\ LET c == calls'[Len(calls')]
             IN  \/ /\ c.kind = "batch"
                    /\ c.res = "invalid_uid"
                    /\ c.uid = x
                    /\ c.ids = batch
                    /\ x \in Range(batch)
                 \/ /\ c.kind = "single"
                    /\ c.res = "error"
                    /\ c.ids = <<x>>
                    /\ pc = "perid"]_vars

\* a batch of two or more that failed as a whole without a member named, and
\* ended with one member rejected and another accepted
C2_Witness ==
    /\ BatchTerminal
    /\ \E n \in 1..Len(calls) : IsAmbiguous(calls[n]) /\ Len(calls[n].ids) >= 2
    /\ Range(batch) \cap invalid_ids # {}
    /\ Range(batch) \ invalid_ids # {}

\* C3: under every sequence of outcomes of the remote calls the validator
\* returns: no failure aborts it, and exhausted retries lead on to the
\* fallback.
C3_Terminates == <>(pc = "done")

\* a run that returned although whole-batch calls failed until the retries
\* were exhausted and an individual call failed too
C3_Witness ==
    /\ pc = "done"
    /\ NumAmbiguous = retries + 1
    /\ retries >= 1
    /\ \E n \in 1..Len(calls) : calls[n].kind = "single" /\ calls[n].res = "error"

\* C4: while every whole-batch call of a batch fails with no uid named, the
\* batch gets at most retries + 1 whole-batch calls, and the fallback has
\* been entered exactly when it has had retries + 1 of them.
C4_BoundedRetries ==
    (\A n \in 1..Len(BatchCalls) : BatchCalls[n].res = "error") =>
        /\ Len(BatchCalls) <= retries + 1
        /\ FallbackEntered <=> Len(BatchCalls) = retries + 1

\* the fallback is entered after two failed whole-batch calls, retries being 1
C4_Witness ==
    /\ pc = "perid"
    /\ k = 1
    /\ retries = 1
    /\ Len(calls) = 2
    /\ \A n \in 1..Len(calls) : calls[n].kind = "batch" /\ calls[n].res = "error"

\* C5: while every failure of a batch names one of its members and every
\* other call succeeds, the fallback is not entered, whatever retries is, and
\* the batch has had at most one whole-batch call more than members named.
C5_FreeReduction ==
    (\A n \in 1..Len(calls) : calls[n].res = "ok" \/ IsReduction(calls[n])) =>
        /\ ~FallbackEntered
        /\ Len(BatchCalls) <= NumReductions + 1
        /\ BatchTerminal => Range(original_batch) \cap invalid_ids =
                               {calls[n].uid : n \in 1..NumReductions}

\* a batch of three resolved by two reductions and a success, retries being 0
C5_Witness ==
    /\ BatchTerminal
    /\ retries = 0
    /\ Len(original_batch) = 3
    /\ Len(calls) = 3
    /\ IsReduction(calls[1])
    /\ IsReduction(calls[2])
    /\ calls[3].res = "ok"

\* C6: the attempt counter of a batch is the number of its ambiguous
\* failures, whatever number of members were dropped in between, and the
\* fallback has been entered exactly when that number has reached retries + 1.
C6_ReductionIsFree ==
    /\ attempt = NumAmbiguous
    /\ NumAmbiguous <= retries + 1
    /\ FallbackEntered <=> NumAmbiguous = retries + 1

\* the fallback is entered after an ambiguous failure, two reductions and
\* another ambiguous failure
C6_Witness ==
    /\ pc = "perid"
    /\ retries = 1
    /\ Len(calls) = 4
    /\ IsAmbiguous(calls[1])
    /\ IsReduction(calls[2])
    /\ IsReduction(calls[3])
    /\ IsAmbiguous(calls[4])

\* C7: in the fallback the individual calls go to the members still in the
\* batch, one each and in order, and once it is over the members of the batch
\* in the returned set are exactly those whose individual call failed.
C7_FallbackCorrect ==
    FallbackEntered =>
        /\ Len(SingleCalls) = (IF pc = "perid" THEN k - 1 ELSE Len(batch))
        /\ \A n \in 1..Len(SingleCalls) : SingleCalls[n].ids = <<batch[n]>>
        /\ Range(batch) \cap invalid_ids =
              {SingleCalls[n].ids[1] :
                 n \in {m \in 1..Len(SingleCalls) : SingleCalls[m].res = "error"}}

\* a finished fallback over a reduced batch, with one individual call that
\* succeeded and one that failed
C7_Witness ==
    /\ BatchTerminal
    /\ Len(batch) = 2
    /\ Len(original_batch) = 3
    /\ Len(SingleCalls) = 2
    /\ SingleCalls[1].res = "ok"
    /\ SingleCalls[2].res = "error"

\* C8: every remote call but the first is issued after a wait of at least
\* the inter-request delay since the call before it.
C8_DelayAfterEveryCall ==
    \A n \in 1..Len(calls) : calls[n].gap = -1 \/ calls[n].gap >= Delay

\* some remote call has been issued
AnyRemoteCall == calls # <<>> \/ i > batch_size

\* the run has ended in sys.exit(1) or in an exception that left main
FatalAbort == mpc \in {"exit1", "raised"}

\* C9: a run of main that aborts has issued no remote call.
C9_FatalBeforeAnyCall == FatalAbort => ~AnyRemoteCall

\* the header that line n of f belongs to (0 before the first header)
HeaderOf(f, n) ==
    LET H == {m \in 1..n : IsHeader(f[m])}
    IN  IF H = {} THEN 0 ELSE CHOOSE m \in H : \A h \in H : h <= m

\* f is a sequence of records: it starts with a header, and every header
\* carries a token
IsRecordDataset(f) ==
    /\ f # <<>> => IsHeader(f[1])
    /\ \A n \in 1..Len(f) :
          IsHeader(f[n]) => extract_accession_from_header(f[n]) # IndexError

\* the lines of f that belong to a record whose accession is not in S
RECURSIVE KeptRecords(_, _, _)
KeptRecords(f, S, n) ==
    IF n = 0 THEN <<>>
    ELSE IF extract_accession_from_header(f[HeaderOf(f, n)]) \in S
    THEN KeptRecords(f, S, n - 1)
    ELSE Append(KeptRecords(f, S, n - 1), f[n])

\* C10: for a file that is a sequence of records, write_cleaned_fasta
\* writes exactly the records whose accession is not in bad_ids, every line
\* of them and in the order of the input.
C10_RewriterFidelity ==
    (rpc = "closed" /\ IsRecordDataset(fasta)) =>
        fout = KeptRecords(fasta, bad_ids, Len(fasta))

\* a rewritten file in which a dropped record with a body line comes before
\* a kept record with a body line
C10_Witness ==
    /\ rpc = "closed"
    /\ IsRecordDataset(fasta)
    /\ Len(fasta) = 4
    /\ extract_accession_from_header(fasta[1]) \in bad_ids
    /\ ~IsHeader(fasta[2])
    /\ IsHeader(fasta[3])
    /\ extract_accession_from_header(fasta[3]) \notin bad_ids
    /\ ~IsHeader(fasta[4])
    /\ fout = <<fasta[3], fasta[4]>>

----------------------------------------------------------------------------
(* C11 - C20 *)

\* the accessions of the input that fail the local syntactic filter
LocallyRejected == {a \in Range(all_accs) : ~is_valid_protein_id_local(a)}

\* C11: an accession that fails the local filter is never handed to the
\* validator nor a member of any remote call, it is in the bad ids the
\* rewriter is given, and no record of it is ever written to the output.
C11_LocalRejectionFinal ==
    \A a \in LocallyRejected :
        /\ a \notin Range(ids)
        /\ \A n \in 1..Len(calls) : a \notin Range(calls[n].ids)
        /\ a \notin covered
        /\ rpc # "idle" => a \in bad_ids
        /\ \A n \in 1..Len(fout) : extract_accession_from_header(fout[n]) # a

\* a finished run of main over a file with a PDB chain, in which remote
\* calls succeeded and records were written
C11_Witness ==
    /\ mpc = "end"
    /\ PDB_1ABC_A \in LocallyRejected
    /\ covered # {}
    /\ fout # <<>>

\* what a log says of the calls, leaving the waits out
CallsMade(h) == [n \in 1..Len(h) |-> <<h[n].kind, h[n].ids, h[n].res, h[n].uid>>]

\* the service of the scenario: a call with NP_2 (B) fails naming it, any
\* other call with XP_3.1 (D) fails with another message, the rest succeed
ScenarioService == Mock({NP_2}, {XP_3_1})

\* C12: on [A, B, C, D] = [NP_1, NP_2, WP_4, XP_3.1] with batch_size 2 and
\* retries 1, against the service of the scenario, the validator returns
\* {B, D} after exactly the calls [A,B], [A], [C,D], [C,D], C, D in that order.
C12_Scenario ==
    (/\ pc = "done"
     /\ ids = <<NP_1, NP_2, WP_4, XP_3_1>>
     /\ batch_size = 2
     /\ retries = 1
     /\ service = ScenarioService) =>
        /\ invalid_ids = {NP_2, XP_3_1}
        /\ Accepted = {NP_1, WP_4}
        /\ CallsMade(history) =
              << <<"batch", <<NP_1, NP_2>>, "invalid_uid", NP_2>>,
                 <<"batch", <<NP_1>>, "ok", NoUid>>,
                 <<"batch", <<WP_4, XP_3_1>>, "error", NoUid>>,
                 <<"batch", <<WP_4, XP_3_1>>, "error", NoUid>>,
                 <<"single", <<WP_4>>, "ok", NoUid>>,
                 <<"single", <<XP_3_1>>, "error", NoUid>> >>

\* the run of the scenario has returned
C12_Witness ==
    /\ pc = "done"
    /\ ids = <<NP_1, NP_2, WP_4, XP_3_1>>
    /\ batch_size = 2
    /\ retries = 1
    /\ service = ScenarioService
    /\ Len(history) = 6

\* C13: a second run of the validator on the same input, with the same
\* batch_size and retries and against the same deterministic service,
\* returns the same set after the same sequence of remote calls.
C13_Deterministic ==
    (pc = "done" /\ first.ran) =>
        /\ invalid_ids = first.rejected
        /\ CallsMade(history) = CallsMade(first.calls)

\* a second run has returned after five calls or more, some accessions
\* rejected and some accepted
C13_Witness ==
    /\ pc = "done"
    /\ first.ran
    /\ Len(history) >= 5
    /\ invalid_ids # {}
    /\ Accepted # {}

\* C14: esummary_protein raises only at the (retries + 1)-th ambiguous
\* failure of a batch, however many invalid uids it dropped before.
C14_DropIsNotARetry == pc = "raised" => NumAmbiguous = retries + 1

\* C15: a whole-batch failure that names an identifier outside the current
\* batch counts as an ambiguous failure: the attempt counter goes up by one,
\* the batch keeps its members and nothing is added to the returned set.
C15_StaleNameIsAmbiguous ==
    [][(/\ pc = "try"
        /\ Len(calls') = Len(calls) + 1
        /\ calls'[Len(calls')].res = "invalid_uid"
        /\ calls'[Len(calls')].uid \notin Range(batch))
       => /\ attempt' = attempt + 1
          /\ batch' = batch
          /\ invalid_ids' = invalid_ids]_vars

\* the only failure of a batch so far named an identifier that is not in it,
\* and the batch is about to be tried again
C15_Witness ==
    /\ pc = "try"
    /\ Len(calls) = 1
    /\ calls[1].res = "invalid_uid"
    /\ calls[1].uid \notin Range(calls[1].ids)
    /\ calls[1].uid \notin invalid_ids
    /\ batch = original_batch
    /\ attempt = 1

\* C16: every identifier that the validator does not return was a member of
\* a remote call that succeeded, whole-batch or individual; at the end of a
\* batch this holds of the members of that batch already.
C16_AcceptedWasCovered ==
    /\ pc = "done" => Accepted \subseteq covered
    /\ BatchTerminal => Range(original_batch) \ invalid_ids \subseteq covered
    /\ \A x \in Range(original_batch) \ invalid_ids :
          BatchTerminal =>
             \E n \in 1..Len(calls) :
                /\ calls[n].res = "ok"
                /\ x \in Range(calls[n].ids)

\* a run that returned after accepting one identifier through a whole-batch
\* call and another through its individual call
C16_Witness ==
    /\ pc = "done"
    /\ Cardinality(Accepted) >= 2
    /\ SingleCalls # <<>>
    /\ \E n \in 1..Len(SingleCalls) : SingleCalls[n].res = "ok"
    /\ \E x \in Accepted : x \notin Range(original_batch)

\* the current batch needs no further call: nothing was started yet, or its
\* last whole-batch call succeeded, or it was emptied, or its fallback went
\* through all its members
Resolved ==
    \/ i = 0 /\ calls = <<>>
    \/ calls # <<>> /\ calls[Len(calls)].kind = "batch" /\ calls[Len(calls)].res = "ok"
    \/ calls # <<>> /\ batch = <<>>
    \/ SingleCalls # <<>> /\ Len(SingleCalls) = Len(batch)

\* C17: batches are taken one after the other: every remote call is for the
\* slice the chunker yielded last, the chunker only moves forward, and it
\* moves (or the validator returns) only when the batch before is resolved
\* by a success, by being emptied, or by a complete fallback.
C17_Sequential ==
    [][/\ i' >= i
       /\ Len(calls') = Len(calls) + 1 =>
             /\ i' = i
             /\ original_batch' = original_batch
             /\ original_batch = Chunk(ids, batch_size, i - batch_size)
             /\ Range(calls'[Len(calls')].ids) \subseteq Range(original_batch)
       /\ (i' # i \/ (pc' = "done" /\ pc # "done")) => Resolved]_vars

\* a call of the second batch, the first having been resolved by a fallback
\* that rejected one of its members
C17_Witness ==
    /\ i = 2 * batch_size
    /\ calls # <<>>
    /\ invalid_ids # {}
    /\ invalid_ids \cap Range(original_batch) = {}
    /\ covered # {}

\* the concatenation of a sequence of sequences
RECURSIVE Flatten(_)
Flatten(ss) == IF ss = <<>> THEN <<>> ELSE Head(ss) \o Flatten(Tail(ss))

\* C18: the slices of the sorted input are a partition of it: each has
\* between 1 and batch_size members, each identifier is in exactly one, in
\* order they make up the input, the batches of the run are these slices and
\* every call of a batch is sent members of its slice only.
C18_ChunksPartition ==
    LET bs == chunker(ids, batch_size)
    IN  /\ \A j \in 1..Len(bs) : Len(bs[j]) \in 1..batch_size
        /\ Flatten(bs) = ids
        /\ \A x \in Range(ids) :
              Cardinality({j \in 1..Len(bs) : x \in Range(bs[j])}) = 1
        /\ i > 0 =>
              /\ i = batch_size * (i \div batch_size)
              /\ i \div batch_size \in 1..Len(bs)
              /\ original_batch = bs[i \div batch_size]
        /\ \A n \in 1..Len(calls) :
              Range(calls[n].ids) \subseteq Range(original_batch)

\* three identifiers in slices of two: the second batch is the short one
C18_Witness ==
    /\ Len(ids) = 3
    /\ batch_size = 2
    /\ i = 4
    /\ original_batch = <<ids[3]>>
    /\ calls # <<>>

\* C19: while a batch is processed it stays within its slice and never
\* grows; it loses a member only in the step of a whole-batch failure that
\* names this member, which enters the returned set in the same step; no
\* whole-batch call is sent an empty batch, and an emptied batch is finished.
C19_BatchOnlyShrinks ==
    /\ [](/\ Range(batch) \subseteq Range(original_batch)
          /\ \A n \in 1..Len(BatchCalls) : BatchCalls[n].ids # <<>>
          /\ (batch = <<>> /\ calls # <<>>) => pc \in {"for", "done"})
    /\ [][i' = i =>
             /\ Range(batch') \subseteq Range(batch)
             /\ batch' # batch =>
                   \E x \in Range(batch) :
                      /\ batch' = SelectSeq(batch, LAMBDA y : y # x)
                      /\ invalid_ids' = invalid_ids \cup {x}
                      /\ x \notin invalid_ids
                      /\ calls' = Append(calls, Call("batch", batch, "invalid_uid", x))]_vars

\* a batch of two emptied by two reductions
C19_Witness ==
    /\ Len(original_batch) = 2
    /\ batch = <<>>
    /\ Len(calls) = 2
    /\ IsReduction(calls[1])
    /\ IsReduction(calls[2])
    /\ Range(original_batch) \subseteq invalid_ids
    /\ pc = "for"

\* the number of ambiguous failures among the first m calls of the batch
AmbiguousUpTo(m) == Len(SelectSeq(SubSeq(calls, 1, m), IsAmbiguous))

\* C20: the whole-batch call that follows the n-th ambiguous failure of a
\* batch is issued after a wait of 3 * n, longer than the wait before the
\* budgeted retry before it, and is sent the same members as the call that
\* failed.
C20_BackoffGrows ==
    \A m \in 1..(Len(calls) - 1) :
       (IsAmbiguous(calls[m]) /\ calls[m + 1].kind = "batch") =>
          /\ AmbiguousUpTo(m) <= retries
          /\ calls[m + 1].gap = 3 * AmbiguousUpTo(m)
          /\ calls[m + 1].ids = calls[m].ids
          /\ \A p \in 1..(m - 1) :
                IsAmbiguous(calls[p]) => calls[m + 1].gap > calls[p + 1].gap

\* two budgeted retries of the same batch, after waits of 3 and of 6
C20_Witness ==
    /\ retries = 2
    /\ Len(calls) = 3
    /\ IsAmbiguous(calls[1])
    /\ IsAmbiguous(calls[2])
    /\ calls[2].gap = 3
    /\ calls[3].gap = 6
    /\ calls[3].kind = "batch"

\* C21: a batch of N members has at most N + retries whole-batch calls,
\* whatever the service answers; its fallback is run through at most once,
\* and no whole-batch call follows an individual call of the same batch.
C21_CallBound ==
    /\ Len(BatchCalls) <= Len(original_batch) + retries
    /\ Len(SingleCalls) <= Len(batch)
    /\ \A n \in 1..Len(SingleCalls) : SingleCalls[n].ids = <<batch[n]>>
    /\ \A m \in 1..Len(calls) : \A n \in 1..Len(calls) :
          (calls[m].kind = "single" /\ m < n) => calls[n].kind = "single"

\* a batch of two that had 2 + retries whole-batch calls and then its fallback
C21_Witness ==
    /\ retries = 1
    /\ Len(original_batch) = 2
    /\ Len(BatchCalls) = 3
    /\ NumReductions = 1
    /\ Len(SingleCalls) = 1
    /\ BatchTerminal

\* C22: the returned set only grows, and no remote call, whole-batch or
\* individual, is sent an identifier that is in the returned set already.
C22_RejectedMonotone ==
    [][/\ invalid_ids \subseteq invalid_ids'
       /\ Len(calls') = Len(calls) + 1 =>
             Range(calls'[Len(calls')].ids) \cap invalid_ids = {}]_vars

\* a call of the second batch while a member of the first is in the returned
\* set, put there by a reduction
C22_Witness ==
    /\ i = 2 * batch_size
    /\ calls # <<>>
    /\ invalid_ids # {}
    /\ Range(original_batch) \cap invalid_ids = {}
    /\ covered = {}
    /\ pc = "try"

\* the efetch calls made for the batch at offset s
FetchesAt(s) == SelectSeq(fetches, LAMBDA f : f.start = s)

\* C23: the download script exits with status 1 after a batch was fetched
\* once and retried RETRY_LIMIT times, RETRY_LIMIT + 1 failed fetches in all,
\* and no batch after it has been fetched.
C23_RetryLimitRetries ==
    dpc = "exit1" =>
        /\ Len(FetchesAt(start)) = RETRY_LIMIT + 1
        /\ \A n \in 1..Len(fetches) : fetches[n].start <= start

====
